---- MODULE Spec2Model ----
(***************************************************************************)
(* A model of physvalue: the Quantity arithmetic engine (src/quantity.py)  *)
(* and the Units registry (src/units.py).                                  *)
(*                                                                         *)
(* Numbers.  A Python number is modelled exactly as a rational scaled by   *)
(* powers of 2 and 5: [n, d, p2, p5] stands for (n/d) * 2^p2 * 5^p5 with   *)
(* n/d in lowest terms and n, d coprime to 10 (zero is [0,1,0,0]).  The    *)
(* form is canonical, so Python's == on numbers is = on these records, and *)
(* it holds the prefix factors 10**24 .. 10**-15 in small integers.        *)
(*                                                                         *)
(* Values.  A Python value is a record [type, value, unit]: a bare number  *)
(* has type "number" and no unit attribute (unit = <<>>); a Quantity       *)
(* instance has type "Quantity", a number as value and a tuple of numbers  *)
(* as unit.                                                                *)
(***************************************************************************)
EXTENDS Integers, Sequences, FiniteSets, TLC

VARIABLES
    acc,    \* the value the client holds: a bare number or a Quantity
    qop,    \* the last operation on it
    qlhs,   \* its left operand (its only operand, or the value constructed from)
    qrhs,   \* its right operand (the unit argument of a construction)
    qkw,    \* the keyword exponents of a construction
    qarg,   \* the integer argument of ** and root
    qres,   \* its outcome: [out, err]
    nops,   \* the number of operations applied so far
    heap,         \* the Units objects some reference reaches: id -> [dict, inits]
    nobjs,        \* the number of Units objects created so far
    _Instance,    \* the class attribute Units._Instance: an id, or 0 for None
    _Prefixable,  \* the class attribute Units._Prefixable
    uref,         \* the client's reference to the registry: an id, or 0 before it has one
    uop,          \* the client's last call on the registry
    ures,         \* its outcome: [out, err]
    pc,           \* of each thread: where it stands in its call of add
    frame         \* of each thread: the arguments and locals of its call of add

qvars == <<acc, qop, qlhs, qrhs, qkw, qarg, qres, nops>>

uvars == <<heap, nobjs, _Instance, _Prefixable, uref, uop, ures>>

tvars == <<pc, frame>>

vars == <<qvars, uvars, tvars>>

(***************************************************************************)
(* Bounds of the model.                                                    *)
(***************************************************************************)
\* largest numerator / denominator of a magnitude kept in acc
MaxMag == 4
\* largest numerator / denominator of an exponent of a unit kept in acc
MaxExp == 2

\* longest sequence of operations a client applies
MaxOps == 3

\* calls of Units() that find the same object
MaxAcquire == 2

\* Units objects created
MaxObjects == 2

\* number of base dimensions: length, mass, time, charge, temp, illum, angle
NDims == 7

(***************************************************************************)
(* Host arithmetic on numbers.                                             *)
(***************************************************************************)
Abs(k) == IF k < 0 THEN -k ELSE k

Min(a, b) == IF a < b THEN a ELSE b

Max(a, b) == IF a < b THEN b ELSE a

RECURSIVE GCD(_, _)
GCD(a, b) == IF b = 0 THEN a ELSE GCD(b, a % b)

RECURSIVE Valuation(_, _)
Valuation(k, p) == IF k # 0 /\ k % p = 0 THEN 1 + Valuation(k \div p, p) ELSE 0

RECURSIVE Strip(_, _)
Strip(k, p) == IF k # 0 /\ k % p = 0 THEN Strip(k \div p, p) ELSE k

RECURSIVE IPow(_, _)
IPow(b, k) == IF k <= 0 THEN 1 ELSE b * IPow(b, k - 1)

\* the canonical record of (n/d) * 2^p2 * 5^p5, d > 0
Num(n, d, p2, p5) ==
    IF n = 0 THEN [n |-> 0, d |-> 1, p2 |-> 0, p5 |-> 0]
    ELSE LET g  == GCD(Abs(n), d)
             n1 == n \div g
             d1 == d \div g
         IN  [n  |-> Strip(Strip(n1, 2), 5),
              d  |-> Strip(Strip(d1, 2), 5),
              p2 |-> p2 + Valuation(n1, 2) - Valuation(d1, 2),
              p5 |-> p5 + Valuation(n1, 5) - Valuation(d1, 5)]

IntNum(k) == Num(k, 1, 0, 0)

Zero == IntNum(0)

One == IntNum(1)

IsZero(x) == x.n = 0

NumNeg(x) == [x EXCEPT !.n = -x.n]

NumAbs(x) == [x EXCEPT !.n = Abs(x.n)]

\* x * y, reduced crosswise before multiplying
NumMul(x, y) ==
    IF x.n = 0 \/ y.n = 0 THEN Zero
    ELSE LET g1 == GCD(Abs(x.n), y.d)
             g2 == GCD(Abs(y.n), x.d)
         IN  [n  |-> (x.n \div g1) * (y.n \div g2),
              d  |-> (x.d \div g2) * (y.d \div g1),
              p2 |-> x.p2 + y.p2,
              p5 |-> x.p5 + y.p5]

\* 1 / x for x # 0
NumInv(x) ==
    [n |-> IF x.n < 0 THEN -x.d ELSE x.d, d |-> Abs(x.n), p2 |-> -x.p2, p5 |-> -x.p5]

NumDiv(x, y) == NumMul(x, NumInv(y))

\* the integer x.n * 2^(x.p2 - m2) * 5^(x.p5 - m5), for m2 <= x.p2 and m5 <= x.p5
Scaled(x, m2, m5) == x.n * IPow(2, x.p2 - m2) * IPow(5, x.p5 - m5)

NumAdd(x, y) ==
    IF x.n = 0 THEN y
    ELSE IF y.n = 0 THEN x
    ELSE LET m2 == Min(x.p2, y.p2)
             m5 == Min(x.p5, y.p5)
         IN  Num(Scaled(x, m2, m5) * y.d + Scaled(y, m2, m5) * x.d, x.d * y.d, m2, m5)

NumSub(x, y) == NumAdd(x, NumNeg(y))

NumLt(x, y) == NumSub(x, y).n < 0

NumLe(x, y) == NumSub(x, y).n <= 0

\* the floor of x, as an integer
Floor(x) ==
    (x.n * IPow(2, Max(x.p2, 0)) * IPow(5, Max(x.p5, 0)))
        \div (x.d * IPow(2, Max(-x.p2, 0)) * IPow(5, Max(-x.p5, 0)))

\* x // y for y # 0
NumFloorDiv(x, y) == IntNum(Floor(NumDiv(x, y)))

\* x ** k for an integer k (x # 0 when k < 0)
RECURSIVE NumPow(_, _)
NumPow(x, k) ==
    IF k = 0 THEN One
    ELSE IF k < 0 THEN NumInv(NumPow(x, -k))
    ELSE NumMul(x, NumPow(x, k - 1))

\* whether the non-negative integer m is a perfect k-th power, and its root
HasIRoot(m, k) == \E r \in 0..m : IPow(r, k) = m

IRoot(m, k) == CHOOSE r \in 0..m : IPow(r, k) = m

\* whether x ** (1/k), k > 0, is a number of the model
HasRoot(x, k) ==
    /\ x.n >= 0
    /\ HasIRoot(x.n, k) /\ HasIRoot(x.d, k)
    /\ x.p2 % k = 0 /\ x.p5 % k = 0

NumRoot(x, k) ==
    [n |-> IRoot(x.n, k), d |-> IRoot(x.d, k), p2 |-> x.p2 \div k, p5 |-> x.p5 \div k]

(***************************************************************************)
(* Python values.                                                          *)
(***************************************************************************)
Number(x) == [type |-> "number", value |-> x, unit |-> <<>>]

Bool(b) == [type |-> "bool", value |-> b, unit |-> <<>>]

NoneValue == [type |-> "None", value |-> <<>>, unit |-> <<>>]

TupleValue(items) == [type |-> "tuple", value |-> items, unit |-> <<>>]

\* an instance of Quantity with its two slots
Instance(value, unit) == [type |-> "Quantity", value |-> value, unit |-> unit]

\* the outcome of a call: the value returned, or the exception raised
Return(v) == [out |-> v, err |-> "none"]

Raise(e) == [out |-> NoneValue, err |-> e]

\* the keyword defaults length=0, ..., angle=0
ZeroUnit == [i \in 1..NDims |-> Zero]

\* the keyword arguments with one exponent given: length=1 is Dim(1, One)
Dim(i, e) == [ZeroUnit EXCEPT ![i] = e]

\* zip(u, v) stops at the shorter of the two
VecAdd(u, v) == [i \in 1..Min(Len(u), Len(v)) |-> NumAdd(u[i], v[i])]

VecSub(u, v) == [i \in 1..Min(Len(u), Len(v)) |-> NumSub(u[i], v[i])]

VecNeg(u) == [i \in 1..Len(u) |-> NumNeg(u[i])]

VecScale(n, u) == [i \in 1..Len(u) |-> NumMul(IntNum(n), u[i])]

VecDiv(u, n) == [i \in 1..Len(u) |-> NumDiv(u[i], IntNum(n))]

(***************************************************************************)
(* Quantity(value, unit, length=.., ..): __new__ followed, when __new__    *)
(* made an instance, by __init__.  value is a number; unit is None, a      *)
(* Quantity, a tuple or (a misuse) a bare number; kw are the keyword       *)
(* exponents.                                                              *)
(***************************************************************************)
\* mutant of Quantity: __new__ without the test of line 69, so that an
\* all-zero exponent vector is kept in an instance
Quantity_without_collapse(value, unit, kw) ==
    IF unit.type = "number" THEN Raise("TypeError")
    ELSE IF unit.type = "None" THEN Return(Instance(value, kw))
    ELSE IF unit.type = "Quantity"
         THEN Return(Instance(NumMul(value, unit.value), unit.unit))
    ELSE IF Len(unit.value) = NDims THEN Return(Instance(value, unit.value))
    ELSE Raise("TypeError")

Quantity(value, unit, kw) ==
    IF unit.type = "number" THEN Raise("TypeError")
    ELSE LET u == IF unit.type = "None" THEN kw
                  ELSE IF unit.type = "Quantity" THEN unit.unit
                  ELSE unit.value
         IN  IF \E i \in 1..Len(u) : ~IsZero(u[i])
             THEN IF unit.type = "None" THEN Return(Instance(value, kw))
                  ELSE IF unit.type = "Quantity"
                       THEN Return(Instance(NumMul(value, unit.value), unit.unit))
                  ELSE IF Len(unit.value) = NDims
                       THEN Return(Instance(value, unit.value))
                  ELSE Raise("TypeError")
             ELSE Return(Number(value))

\* Quantity(value, unit=unit) as the methods call it, unit a tuple
New(value, unit) == Quantity(value, TupleValue(unit), ZeroUnit)

\* mutant of compatible: a bare number passes as compatible
compatible_with_numbers(self, other) == other.type = "number" \/ self.unit = other.unit

compatible(self, other) == other.type = "Quantity" /\ self.unit = other.unit

__abs__(self) == New(NumAbs(self.value), self.unit)

__add__(self, other) ==
    IF ~compatible(self, other) THEN Raise("IncompatibleUnits")
    ELSE New(NumAdd(self.value, other.value), self.unit)

__radd__(self, other) == __add__(self, other)

__neg__(self) == New(NumNeg(self.value), self.unit)

__sub__(self, other) ==
    IF ~compatible(self, other) THEN Raise("IncompatibleUnits")
    ELSE New(NumSub(self.value, other.value), self.unit)

__rsub__(self, other) ==
    IF ~compatible(self, other) THEN Raise("IncompatibleUnits")
    ELSE New(NumSub(other.value, self.value), self.unit)

__mul__(self, other) ==
    IF other.type = "Quantity"
    THEN New(NumMul(self.value, other.value), VecAdd(self.unit, other.unit))
    ELSE New(NumMul(self.value, other.value), self.unit)

__rmul__(self, other) == __mul__(self, other)

invert(self) ==
    IF IsZero(self.value) THEN Raise("ZeroDivisionError")
    ELSE New(NumInv(self.value), VecNeg(self.unit))

__truediv__(self, other) ==
    IF IsZero(other.value) THEN Raise("ZeroDivisionError")
    ELSE IF other.type = "Quantity"
    THEN New(NumDiv(self.value, other.value), VecSub(self.unit, other.unit))
    ELSE New(NumDiv(self.value, other.value), self.unit)

__rtruediv__(self, other) ==
    IF IsZero(self.value) THEN Raise("ZeroDivisionError")
    ELSE IF other.type = "Quantity"
    THEN New(NumDiv(other.value, self.value), VecSub(other.unit, self.unit))
    ELSE New(NumDiv(other.value, self.value), VecNeg(self.unit))

__floordiv__(self, other) ==
    IF IsZero(other.value) THEN Raise("ZeroDivisionError")
    ELSE IF other.type = "Quantity"
    THEN New(NumFloorDiv(self.value, other.value), VecSub(self.unit, other.unit))
    ELSE New(NumFloorDiv(self.value, other.value), self.unit)

\* mutant of __rfloordiv__: the exponents of number // quantity are not negated
__rfloordiv__not_negated(self, other) ==
    IF IsZero(self.value) THEN Raise("ZeroDivisionError")
    ELSE IF other.type = "Quantity"
    THEN New(NumFloorDiv(other.value, self.value), VecSub(other.unit, self.unit))
    ELSE New(NumFloorDiv(other.value, self.value), self.unit)

__rfloordiv__(self, other) ==
    IF IsZero(self.value) THEN Raise("ZeroDivisionError")
    ELSE IF other.type = "Quantity"
    THEN New(NumFloorDiv(other.value, self.value), VecSub(other.unit, self.unit))
    ELSE New(NumFloorDiv(other.value, self.value), VecNeg(self.unit))

\* self ** n for an integer n
__pow__(self, n) ==
    IF IsZero(self.value) /\ n < 0 THEN Raise("ZeroDivisionError")
    ELSE New(NumPow(self.value, n), VecScale(n, self.unit))

\* self.root(n) for an integer n >= 0 and a magnitude with a root in the model
root(self, n) ==
    IF n = 0 THEN Raise("ZeroDivisionError")
    ELSE New(NumRoot(self.value, n), VecDiv(self.unit, n))

sqrt(self) == root(self, 2)

\* math.<fn>(x): a real the model does not compute
MathValue(fn, x) == [type |-> "math", value |-> <<fn, x>>, unit |-> <<>>]

\* raise NotAnAngle(op, self): the exception carries the operation it was given
NotAnAngle(op) == [out |-> TupleValue(<<op>>), err |-> "NotAnAngle"]

__float__(self) ==
    IF ~compatible(self, Quantity(One, NoneValue, Dim(7, One)).out) THEN NotAnAngle("float")
    ELSE Return(Number(self.value))

sin(self) ==
    IF ~compatible(self, Quantity(One, NoneValue, Dim(7, One)).out) THEN NotAnAngle("sin")
    ELSE Return(MathValue("sin", self.value))

cos(self) ==
    IF ~compatible(self, Quantity(One, NoneValue, Dim(7, One)).out) THEN NotAnAngle("sin")
    ELSE Return(MathValue("cos", self.value))

tan(self) ==
    IF ~compatible(self, Quantity(One, NoneValue, Dim(7, One)).out) THEN NotAnAngle("sin")
    ELSE Return(MathValue("tan", self.value))

__eq__(self, other) ==
    IF ~compatible(self, other) THEN Raise("IncompatibleUnits")
    ELSE Return(Bool(self.value = other.value /\ self.unit = other.unit))

__ne__(self, other) ==
    LET r == __eq__(self, other)
    IN  IF r.err # "none" THEN r ELSE Return(Bool(~r.out.value))

__lt__(self, other) ==
    IF ~compatible(self, other) THEN Raise("IncompatibleUnits")
    ELSE Return(Bool(NumLt(self.value, other.value)))

__le__(self, other) ==
    IF ~compatible(self, other) THEN Raise("IncompatibleUnits")
    ELSE Return(Bool(NumLe(self.value, other.value)))

__gt__(self, other) ==
    IF ~compatible(self, other) THEN Raise("IncompatibleUnits")
    ELSE Return(Bool(NumLt(other.value, self.value)))

__ge__(self, other) ==
    IF ~compatible(self, other) THEN Raise("IncompatibleUnits")
    ELSE Return(Bool(NumLe(other.value, self.value)))

(***************************************************************************)
(* The operators of the host language on operands that are bare numbers or *)
(* Quantities: the left operand's method when it is a Quantity, the right  *)
(* operand's reflected method when only the right one is, plain number     *)
(* arithmetic otherwise.                                                   *)
(***************************************************************************)
negate(a) == IF a.type = "Quantity" THEN __neg__(a) ELSE Return(Number(NumNeg(a.value)))

absolute(a) == IF a.type = "Quantity" THEN __abs__(a) ELSE Return(Number(NumAbs(a.value)))

plus(a, b) ==
    IF a.type = "Quantity" THEN __add__(a, b)
    ELSE IF b.type = "Quantity" THEN __radd__(b, a)
    ELSE Return(Number(NumAdd(a.value, b.value)))

minus(a, b) ==
    IF a.type = "Quantity" THEN __sub__(a, b)
    ELSE IF b.type = "Quantity" THEN __rsub__(b, a)
    ELSE Return(Number(NumSub(a.value, b.value)))

times(a, b) ==
    IF a.type = "Quantity" THEN __mul__(a, b)
    ELSE IF b.type = "Quantity" THEN __rmul__(b, a)
    ELSE Return(Number(NumMul(a.value, b.value)))

over(a, b) ==
    IF a.type = "Quantity" THEN __truediv__(a, b)
    ELSE IF b.type = "Quantity" THEN __rtruediv__(b, a)
    ELSE IF IsZero(b.value) THEN Raise("ZeroDivisionError")
    ELSE Return(Number(NumDiv(a.value, b.value)))

floor_over(a, b) ==
    IF a.type = "Quantity" THEN __floordiv__(a, b)
    ELSE IF b.type = "Quantity" THEN __rfloordiv__(b, a)
    ELSE IF IsZero(b.value) THEN Raise("ZeroDivisionError")
    ELSE Return(Number(NumFloorDiv(a.value, b.value)))

power(a, n) ==
    IF a.type = "Quantity" THEN __pow__(a, n)
    ELSE IF IsZero(a.value) /\ n < 0 THEN Raise("ZeroDivisionError")
    ELSE Return(Number(NumPow(a.value, n)))

eq(a, b) ==
    IF a.type = "Quantity" THEN __eq__(a, b)
    ELSE IF b.type = "Quantity" THEN __eq__(b, a)
    ELSE Return(Bool(a.value = b.value))

ne(a, b) ==
    IF a.type = "Quantity" THEN __ne__(a, b)
    ELSE IF b.type = "Quantity" THEN __ne__(b, a)
    ELSE Return(Bool(a.value # b.value))

lt(a, b) ==
    IF a.type = "Quantity" THEN __lt__(a, b)
    ELSE IF b.type = "Quantity" THEN __gt__(b, a)
    ELSE Return(Bool(NumLt(a.value, b.value)))

le(a, b) ==
    IF a.type = "Quantity" THEN __le__(a, b)
    ELSE IF b.type = "Quantity" THEN __ge__(b, a)
    ELSE Return(Bool(NumLe(a.value, b.value)))

gt(a, b) ==
    IF a.type = "Quantity" THEN __gt__(a, b)
    ELSE IF b.type = "Quantity" THEN __lt__(b, a)
    ELSE Return(Bool(NumLt(b.value, a.value)))

ge(a, b) ==
    IF a.type = "Quantity" THEN __ge__(a, b)
    ELSE IF b.type = "Quantity" THEN __le__(b, a)
    ELSE Return(Bool(NumLe(b.value, a.value)))

(***************************************************************************)
(* The Units registry (src/units.py).  A unit name is the sequence of its  *)
(* characters, so that name[:1] is its head and name[1:] its tail.  The    *)
(* methods are functions of self = [dict, pref]: the instance's __dict__   *)
(* and the class attribute Units._Prefixable; they return the two after    *)
(* the call together with its outcome [out, err].  Names range over unit   *)
(* names: the attributes of the class itself (add, defined, prefixable,    *)
(* ...) are found by the host's attribute lookup before __getattr__.       *)
(***************************************************************************)
\* numpy's pi, to four decimals
pi == Num(31416, 10000, 0, 0)

\* 10 ** k
Pow10(k) == [n |-> 1, d |-> 1, p2 |-> k, p5 |-> k]

_Prefixes ==
    ("Y" :> Pow10(24)) @@ ("Z" :> Pow10(21)) @@ ("E" :> Pow10(18)) @@ ("P" :> Pow10(15))
        @@ ("T" :> Pow10(12)) @@ ("G" :> Pow10(9)) @@ ("M" :> Pow10(6)) @@ ("k" :> Pow10(3))
        @@ ("d" :> Pow10(-1)) @@ ("c" :> Pow10(-2)) @@ ("m" :> Pow10(-3)) @@ ("u" :> Pow10(-6))
        @@ ("n" :> Pow10(-9)) @@ ("p" :> Pow10(-12)) @@ ("f" :> Pow10(-15))

EmptyDict == [x \in {} |-> NoneValue]

\* d[k] = v
DictPut(d, k, v) == [x \in DOMAIN d \cup {k} |-> IF x = k THEN v ELSE d[x]]

\* self after a call that left it alone, with the call's outcome r
Outcome(self, r) == [dict |-> self.dict, pref |-> self.pref, out |-> r.out, err |-> r.err]

\* lines 76-87 of add: the quantity made of the positional and keyword arguments
NewUnit(args, kwargs) ==
    IF Len(args) = 2 THEN Quantity(args[1].value, args[2], kwargs)
    ELSE IF Len(args) = 1
         THEN IF args[1].type = "Quantity" THEN Quantity(One, args[1], kwargs)
              ELSE Quantity(args[1].value, NoneValue, kwargs)
    ELSE Quantity(One, NoneValue, kwargs)

\* mutant of add: a registered name is overwritten by a new definition
add_overwriting(self, name, args, can_prefix, kwargs) ==
    LET unit == NewUnit(args, kwargs)
    IN  IF unit.err # "none" THEN Outcome(self, unit)
        ELSE [dict |-> DictPut(self.dict, name, unit.out),
              pref |-> IF can_prefix THEN self.pref \cup {name} ELSE self.pref \ {name},
              out  |-> unit.out,
              err  |-> "none"]

\* mutant of add: the prefixable flag of a re-registration is not compared
add_ignoring_can_prefix(self, name, args, can_prefix, kwargs) ==
    LET unit == NewUnit(args, kwargs)
    IN  IF unit.err # "none" THEN Outcome(self, unit)
        ELSE IF name \in DOMAIN self.dict
        THEN LET cur  == self.dict[name]
                 same == eq(unit.out, cur)
             IN  IF same.err = "none" /\ same.out.value
                 THEN Outcome(self, Return(cur))
                 ELSE Outcome(self, Raise("InconsistentUnitDefinition"))
        ELSE [dict |-> DictPut(self.dict, name, unit.out),
              pref |-> IF can_prefix THEN self.pref \cup {name} ELSE self.pref,
              out  |-> unit.out,
              err  |-> "none"]

add(self, name, args, can_prefix, kwargs) ==
    LET unit == NewUnit(args, kwargs)
    IN  IF unit.err # "none" THEN Outcome(self, unit)
        ELSE IF name \in DOMAIN self.dict
        THEN LET cur          == self.dict[name]
                 could_prefix == name \in self.pref
                 same         == eq(unit.out, cur)
             IN  IF can_prefix = could_prefix /\ same.err = "none" /\ same.out.value
                 THEN Outcome(self, Return(cur))
                 ELSE Outcome(self, Raise("InconsistentUnitDefinition"))
        ELSE [dict |-> DictPut(self.dict, name, unit.out),
              pref |-> IF can_prefix THEN self.pref \cup {name} ELSE self.pref,
              out  |-> unit.out,
              err  |-> "none"]

\* mutant of __setattr__: the assignment is carried out
__setattr__assigning(self, name, value) ==
    [dict |-> DictPut(self.dict, name, value), pref |-> self.pref, out |-> NoneValue,
     err |-> "none"]

__setattr__(self, name, value) == Outcome(self, Raise("AttemptToAssignToUnit"))

\* mutant of __getattr__: the base unit is not required to be prefixable
__getattr__any_base(self, name) ==
    IF Len(name) > 1 /\ Head(name) \in DOMAIN _Prefixes /\ Tail(name) \in DOMAIN self.dict
    THEN LET r == add(self, name, <<Number(_Prefixes[Head(name)]), self.dict[Tail(name)]>>,
                      FALSE, ZeroUnit)
         IN  IF r.err = "none" THEN r ELSE Outcome(self, Raise("UndefinedUnit"))
    ELSE Outcome(self, Raise("UndefinedUnit"))

\* mutant of __getattr__: the synthesized name is registered as prefixable
__getattr__prefixable(self, name) ==
    IF /\ Len(name) > 1
       /\ Head(name) \in DOMAIN _Prefixes
       /\ Tail(name) \in DOMAIN self.dict
       /\ Tail(name) \in self.pref
    THEN LET r == add(self, name, <<Number(_Prefixes[Head(name)]), self.dict[Tail(name)]>>,
                      TRUE, ZeroUnit)
         IN  IF r.err = "none" THEN r ELSE Outcome(self, Raise("UndefinedUnit"))
    ELSE Outcome(self, Raise("UndefinedUnit"))

\* called for a name the instance's __dict__ does not hold
__getattr__(self, name) ==
    IF /\ Len(name) > 1
       /\ Head(name) \in DOMAIN _Prefixes
       /\ Tail(name) \in DOMAIN self.dict
       /\ Tail(name) \in self.pref
    THEN LET r == add(self, name, <<Number(_Prefixes[Head(name)]), self.dict[Tail(name)]>>,
                      FALSE, ZeroUnit)
         IN  IF r.err = "none" THEN r ELSE Outcome(self, Raise("UndefinedUnit"))
    ELSE Outcome(self, Raise("UndefinedUnit"))

\* self.<name>
getattr(self, name) ==
    IF name \in DOMAIN self.dict THEN Outcome(self, Return(self.dict[name]))
    ELSE __getattr__(self, name)

\* F of the value of x: x is evaluated first, and once
Then(x, F(_)) == CHOOSE y \in {F(v) : v \in {x}} : TRUE

\* Quantity.__getattr__: self.<name> for a name that is no attribute of a Quantity, u
\* being the registry: the package's 'units' is not part of src/
Quantity__getattr__(self, u, name) ==
    Then(getattr(u, name),
         LAMBDA unit :
             IF unit.err # "none" THEN Outcome(unit, Raise("AttributeError"))
             ELSE IF ~compatible(self, unit.out) THEN Outcome(unit, Raise("AttributeError"))
             ELSE Then(over(self, unit.out),
                       LAMBDA r : Outcome(unit, IF r.err # "none" THEN Raise("AttributeError")
                                                ELSE r)))

(***************************************************************************)
(* The bootstrap: each add call of add_base_units .. add_imperial_units    *)
(* with its arguments as written, <<"u", name>> for self.<name>,           *)
(* <<"n", x>> for a number and <<"mul" | "div" | "pow", ..>> for the       *)
(* arithmetic on them.                                                     *)
(***************************************************************************)
RECURSIVE Eval(_, _)
Eval(self, e) ==
    CASE e[1] = "n" -> Outcome(self, Return(Number(e[2])))
      [] e[1] = "u" -> getattr(self, e[2])
      [] e[1] = "pow" ->
             Then(Eval(self, e[2]),
                  LAMBDA a : IF a.err # "none" THEN a ELSE Outcome(a, power(a.out, e[3])))
      [] OTHER ->
             Then(Eval(self, e[2]),
                  LAMBDA a :
                      IF a.err # "none" THEN a
                      ELSE Then(Eval(a, e[3]),
                                LAMBDA b :
                                    IF b.err # "none" THEN b
                                    ELSE Outcome(b, IF e[1] = "mul" THEN times(a.out, b.out)
                                                    ELSE over(a.out, b.out))))

\* one self.add(...) of the bootstrap: its arguments left to right, then add
RunStep(self, step) ==
    IF Len(step.args) = 0 THEN add(self, step.name, <<>>, step.can_prefix, step.kwargs)
    ELSE Then(Eval(self, step.args[1]),
              LAMBDA a :
                  IF a.err # "none" THEN a
                  ELSE IF Len(step.args) = 1
                       THEN add(a, step.name, <<a.out>>, step.can_prefix, step.kwargs)
                  ELSE Then(Eval(a, step.args[2]),
                            LAMBDA b :
                                IF b.err # "none" THEN b
                                ELSE add(b, step.name, <<a.out, b.out>>, step.can_prefix,
                                         step.kwargs)))

\* the steps i..j in their order, stopping at the first that raises: the first half
\* of them, then the second half
RECURSIVE RunSteps(_, _, _, _)
RunSteps(self, steps, i, j) ==
    IF i > j THEN self
    ELSE IF i = j THEN RunStep(self, steps[i])
    ELSE Then(RunSteps(self, steps, i, (i + j) \div 2),
              LAMBDA r : IF r.err # "none" THEN r
                         ELSE RunSteps(r, steps, (i + j) \div 2 + 1, j))

\* lines 105-117
add_base_units ==
    <<
       [name |-> <<"m">>, args |-> <<>>, kwargs |-> Dim(1, One), can_prefix |-> TRUE],
       [name |-> <<"k", "g">>, args |-> <<>>, kwargs |-> Dim(2, One), can_prefix |-> FALSE],
       [name |-> <<"s">>, args |-> <<>>, kwargs |-> Dim(3, One), can_prefix |-> TRUE],
       [name |-> <<"C">>, args |-> <<>>, kwargs |-> Dim(4, One), can_prefix |-> FALSE],
       [name |-> <<"K">>, args |-> <<>>, kwargs |-> Dim(5, One), can_prefix |-> FALSE],
       [name |-> <<"c", "d">>, args |-> <<>>, kwargs |-> Dim(6, One), can_prefix |-> FALSE],
       [name |-> <<"r", "a", "d">>, args |-> <<>>, kwargs |-> Dim(7, One), can_prefix |-> FALSE],
       [name |-> <<"g">>, args |-> <<<<"n", Num(1, 1000, 0, 0)>>, <<"u", <<"k", "g">>>>>>, kwargs |-> ZeroUnit, can_prefix |-> TRUE],
       [name |-> <<"s", "e", "c">>, args |-> <<<<"u", <<"s">>>>>>, kwargs |-> ZeroUnit, can_prefix |-> TRUE],
       [name |-> <<"c", "o", "u", "l">>, args |-> <<<<"u", <<"C">>>>>>, kwargs |-> ZeroUnit, can_prefix |-> TRUE]
    >>

\* lines 119-122
add_angle_units ==
    <<
       [name |-> <<"d", "e", "g">>, args |-> <<<<"div", <<"n", pi>>, <<"n", IntNum(180)>>>>, <<"u", <<"r", "a", "d">>>>>>, kwargs |-> ZeroUnit, can_prefix |-> FALSE],
       [name |-> <<"c", "y", "c", "l", "e">>, args |-> <<<<"mul", <<"n", IntNum(360)>>, <<"u", <<"d", "e", "g">>>>>>>>, kwargs |-> ZeroUnit, can_prefix |-> FALSE],
       [name |-> <<"s", "r">>, args |-> <<<<"pow", <<"u", <<"r", "a", "d">>>>, 2>>>>, kwargs |-> ZeroUnit, can_prefix |-> FALSE]
    >>

\* lines 124-128
add_time_units ==
    <<
       [name |-> <<"m", "i", "n">>, args |-> <<<<"n", IntNum(60)>>, <<"u", <<"s", "e", "c">>>>>>, kwargs |-> ZeroUnit, can_prefix |-> FALSE],
       [name |-> <<"h", "r">>, args |-> <<<<"n", IntNum(60)>>, <<"u", <<"m", "i", "n">>>>>>, kwargs |-> ZeroUnit, can_prefix |-> FALSE],
       [name |-> <<"d", "a", "y">>, args |-> <<<<"n", IntNum(24)>>, <<"u", <<"h", "r">>>>>>, kwargs |-> ZeroUnit, can_prefix |-> FALSE],
       [name |-> <<"w", "e", "e", "k">>, args |-> <<<<"n", IntNum(7)>>, <<"u", <<"d", "a", "y">>>>>>, kwargs |-> ZeroUnit, can_prefix |-> FALSE]
    >>

\* lines 130-164
add_mks_units ==
    <<
       [name |-> <<"t", "o", "n", "n", "e">>, args |-> <<<<"n", IntNum(1000)>>, <<"u", <<"k", "g">>>>>>, kwargs |-> ZeroUnit, can_prefix |-> TRUE],
       [name |-> <<"m", "l">>, args |-> <<<<"n", IntNum(1000)>>, <<"pow", <<"u", <<"c", "m">>>>, 3>>>>, kwargs |-> ZeroUnit, can_prefix |-> FALSE],
       [name |-> <<"L">>, args |-> <<<<"n", IntNum(1000)>>, <<"u", <<"m", "l">>>>>>, kwargs |-> ZeroUnit, can_prefix |-> TRUE],
       [name |-> <<"l", "i", "t", "r", "e">>, args |-> <<<<"u", <<"L">>>>>>, kwargs |-> ZeroUnit, can_prefix |-> FALSE],
       [name |-> <<"l", "i", "t", "e", "r">>, args |-> <<<<"u", <<"L">>>>>>, kwargs |-> ZeroUnit, can_prefix |-> FALSE],
       [name |-> <<"H", "z">>, args |-> <<<<"div", <<"n", IntNum(1)>>, <<"u", <<"s", "e", "c">>>>>>>>, kwargs |-> ZeroUnit, can_prefix |-> TRUE],
       [name |-> <<"N">>, args |-> <<<<"div", <<"mul", <<"u", <<"m">>>>, <<"u", <<"k", "g">>>>>>, <<"pow", <<"u", <<"s", "e", "c">>>>, 2>>>>>>, kwargs |-> ZeroUnit, can_prefix |-> TRUE],
       [name |-> <<"J">>, args |-> <<<<"mul", <<"u", <<"m">>>>, <<"u", <<"N">>>>>>>>, kwargs |-> ZeroUnit, can_prefix |-> TRUE],
       [name |-> <<"W">>, args |-> <<<<"div", <<"u", <<"J">>>>, <<"u", <<"s">>>>>>>>, kwargs |-> ZeroUnit, can_prefix |-> TRUE],
       [name |-> <<"P", "a">>, args |-> <<<<"div", <<"u", <<"N">>>>, <<"pow", <<"u", <<"m">>>>, 2>>>>>>, kwargs |-> ZeroUnit, can_prefix |-> TRUE],
       [name |-> <<"A">>, args |-> <<<<"div", <<"u", <<"c", "o", "u", "l">>>>, <<"u", <<"s", "e", "c">>>>>>>>, kwargs |-> ZeroUnit, can_prefix |-> TRUE],
       [name |-> <<"V">>, args |-> <<<<"div", <<"u", <<"J">>>>, <<"u", <<"c", "o", "u", "l">>>>>>>>, kwargs |-> ZeroUnit, can_prefix |-> TRUE],
       [name |-> <<"F">>, args |-> <<<<"div", <<"u", <<"c", "o", "u", "l">>>>, <<"u", <<"V">>>>>>>>, kwargs |-> ZeroUnit, can_prefix |-> TRUE],
       [name |-> <<"O", "h", "m">>, args |-> <<<<"div", <<"u", <<"V">>>>, <<"u", <<"A">>>>>>>>, kwargs |-> ZeroUnit, can_prefix |-> TRUE],
       [name |-> <<"l", "m">>, args |-> <<<<"mul", <<"u", <<"c", "d">>>>, <<"u", <<"s", "r">>>>>>>>, kwargs |-> ZeroUnit, can_prefix |-> FALSE],
       [name |-> <<"l", "x">>, args |-> <<<<"div", <<"u", <<"l", "m">>>>, <<"pow", <<"u", <<"m">>>>, 2>>>>>>, kwargs |-> ZeroUnit, can_prefix |-> FALSE],
       [name |-> <<"h", "e", "r", "t", "z">>, args |-> <<<<"u", <<"H", "z">>>>>>, kwargs |-> ZeroUnit, can_prefix |-> FALSE],
       [name |-> <<"n", "e", "w", "t", "o", "n">>, args |-> <<<<"u", <<"N">>>>>>, kwargs |-> ZeroUnit, can_prefix |-> FALSE],
       [name |-> <<"j", "o", "u", "l", "e">>, args |-> <<<<"u", <<"J">>>>>>, kwargs |-> ZeroUnit, can_prefix |-> FALSE],
       [name |-> <<"w", "a", "t", "t">>, args |-> <<<<"u", <<"W">>>>>>, kwargs |-> ZeroUnit, can_prefix |-> FALSE],
       [name |-> <<"p", "a", "s", "c", "a", "l">>, args |-> <<<<"u", <<"P", "a">>>>>>, kwargs |-> ZeroUnit, can_prefix |-> FALSE],
       [name |-> <<"a", "m", "p">>, args |-> <<<<"u", <<"A">>>>>>, kwargs |-> ZeroUnit, can_prefix |-> FALSE],
       [name |-> <<"v", "o", "l", "t">>, args |-> <<<<"u", <<"V">>>>>>, kwargs |-> ZeroUnit, can_prefix |-> FALSE],
       [name |-> <<"f", "a", "r", "a", "d">>, args |-> <<<<"u", <<"F">>>>>>, kwargs |-> ZeroUnit, can_prefix |-> FALSE],
       [name |-> <<"o", "h", "m">>, args |-> <<<<"u", <<"O", "h", "m">>>>>>, kwargs |-> ZeroUnit, can_prefix |-> FALSE],
       [name |-> <<"l", "u", "m", "e", "n">>, args |-> <<<<"u", <<"l", "m">>>>>>, kwargs |-> ZeroUnit, can_prefix |-> FALSE],
       [name |-> <<"l", "u", "x">>, args |-> <<<<"u", <<"l", "x">>>>>>, kwargs |-> ZeroUnit, can_prefix |-> FALSE]
    >>

\* lines 166-202
add_imperial_units ==
    <<
       [name |-> <<"i", "n", "c", "h">>, args |-> <<<<"n", Num(127, 50, 0, 0)>>, <<"u", <<"c", "m">>>>>>, kwargs |-> ZeroUnit, can_prefix |-> FALSE],
       [name |-> <<"f", "t">>, args |-> <<<<"n", IntNum(12)>>, <<"u", <<"i", "n", "c", "h">>>>>>, kwargs |-> ZeroUnit, can_prefix |-> FALSE],
       [name |-> <<"f", "o", "o", "t">>, args |-> <<<<"u", <<"f", "t">>>>>>, kwargs |-> ZeroUnit, can_prefix |-> FALSE],
       [name |-> <<"f", "e", "e", "t">>, args |-> <<<<"u", <<"f", "t">>>>>>, kwargs |-> ZeroUnit, can_prefix |-> FALSE],
       [name |-> <<"y", "d">>, args |-> <<<<"n", IntNum(3)>>, <<"u", <<"f", "t">>>>>>, kwargs |-> ZeroUnit, can_prefix |-> FALSE],
       [name |-> <<"y", "a", "r", "d">>, args |-> <<<<"u", <<"y", "d">>>>>>, kwargs |-> ZeroUnit, can_prefix |-> FALSE],
       [name |-> <<"y", "a", "r", "d", "s">>, args |-> <<<<"u", <<"y", "d">>>>>>, kwargs |-> ZeroUnit, can_prefix |-> FALSE],
       [name |-> <<"m", "i">>, args |-> <<<<"n", IntNum(1760)>>, <<"u", <<"y", "d">>>>>>, kwargs |-> ZeroUnit, can_prefix |-> FALSE],
       [name |-> <<"m", "i", "l", "e">>, args |-> <<<<"u", <<"m", "i">>>>>>, kwargs |-> ZeroUnit, can_prefix |-> FALSE],
       [name |-> <<"m", "i", "l", "e", "s">>, args |-> <<<<"u", <<"m", "i">>>>>>, kwargs |-> ZeroUnit, can_prefix |-> FALSE],
       [name |-> <<"l", "e", "a", "g", "u", "e">>, args |-> <<<<"n", IntNum(3)>>, <<"u", <<"m", "i">>>>>>, kwargs |-> ZeroUnit, can_prefix |-> FALSE],
       [name |-> <<"n", "m", "i">>, args |-> <<<<"n", IntNum(1852)>>, <<"u", <<"m">>>>>>, kwargs |-> ZeroUnit, can_prefix |-> FALSE],
       [name |-> <<"a", "c", "r", "e">>, args |-> <<<<"n", IntNum(4840)>>, <<"pow", <<"u", <<"y", "d">>>>, 2>>>>, kwargs |-> ZeroUnit, can_prefix |-> FALSE],
       [name |-> <<"p", "t">>, args |-> <<<<"n", Num(231, 8, 0, 0)>>, <<"pow", <<"u", <<"i", "n", "c", "h">>>>, 3>>>>, kwargs |-> ZeroUnit, can_prefix |-> FALSE],
       [name |-> <<"q", "t">>, args |-> <<<<"n", IntNum(2)>>, <<"u", <<"p", "t">>>>>>, kwargs |-> ZeroUnit, can_prefix |-> FALSE],
       [name |-> <<"g", "a", "l">>, args |-> <<<<"n", IntNum(4)>>, <<"u", <<"q", "t">>>>>>, kwargs |-> ZeroUnit, can_prefix |-> FALSE],
       [name |-> <<"f", "l", "_", "o", "z">>, args |-> <<<<"div", <<"u", <<"p", "t">>>>, <<"n", IntNum(16)>>>>>>, kwargs |-> ZeroUnit, can_prefix |-> FALSE],
       [name |-> <<"p", "i", "n", "t">>, args |-> <<<<"u", <<"p", "t">>>>>>, kwargs |-> ZeroUnit, can_prefix |-> FALSE],
       [name |-> <<"q", "u", "a", "r", "t">>, args |-> <<<<"u", <<"q", "t">>>>>>, kwargs |-> ZeroUnit, can_prefix |-> FALSE],
       [name |-> <<"g", "a", "l", "l", "o", "n">>, args |-> <<<<"u", <<"g", "a", "l">>>>>>, kwargs |-> ZeroUnit, can_prefix |-> FALSE],
       [name |-> <<"o", "z">>, args |-> <<<<"n", Num(227, 8, 0, 0)>>, <<"u", <<"g">>>>>>, kwargs |-> ZeroUnit, can_prefix |-> FALSE],
       [name |-> <<"l", "b">>, args |-> <<<<"n", IntNum(16)>>, <<"u", <<"o", "z">>>>>>, kwargs |-> ZeroUnit, can_prefix |-> FALSE],
       [name |-> <<"t", "o", "n">>, args |-> <<<<"n", IntNum(2000)>>, <<"u", <<"l", "b">>>>>>, kwargs |-> ZeroUnit, can_prefix |-> FALSE],
       [name |-> <<"l", "b", "f">>, args |-> <<<<"n", Num(222411081, 50000000, 0, 0)>>, <<"u", <<"N">>>>>>, kwargs |-> ZeroUnit, can_prefix |-> FALSE],
       [name |-> <<"B", "T", "U">>, args |-> <<<<"n", Num(21101117, 20000, 0, 0)>>, <<"u", <<"J">>>>>>, kwargs |-> ZeroUnit, can_prefix |-> FALSE],
       [name |-> <<"h", "p">>, args |-> <<<<"n", Num(23303121, 31250, 0, 0)>>, <<"u", <<"W">>>>>>, kwargs |-> ZeroUnit, can_prefix |-> FALSE]
    >>

\* mutant of Bootstrap: the angle units are added before the base units
Bootstrap_angles_first ==
    add_angle_units \o add_base_units \o add_time_units \o add_mks_units \o add_imperial_units

Bootstrap ==
    add_base_units \o add_angle_units \o add_time_units \o add_mks_units \o add_imperial_units

__init__(self) == RunSteps(Outcome(self, Return(NoneValue)), Bootstrap, 1, Len(Bootstrap))

(***************************************************************************)
(* The arithmetic engine as a state machine: a client holds a value acc    *)
(* and applies one operation after the other to it, the other operand      *)
(* taken from a few constructed values or acc itself.                      *)
(***************************************************************************)
\* x as a plain fraction PlainNum(x) / PlainDen(x), up to sign
PlainNum(x) == Abs(x.n) * IPow(2, Max(x.p2, 0)) * IPow(5, Max(x.p5, 0))

PlainDen(x) == x.d * IPow(2, Max(-x.p2, 0)) * IPow(5, Max(-x.p5, 0))

Within(x, m) == PlainNum(x) <= m /\ PlainDen(x) <= m

InBounds(v) ==
    IF v.type \in {"bool", "math"} THEN TRUE
    ELSE /\ Within(v.value, MaxMag)
         /\ \A i \in 1..Len(v.unit) : Within(v.unit[i], MaxExp)

Magnitudes == {Zero, IntNum(2)}

\* no exponent given; angle=1; length=1, angle=-2
KwVecs == {ZeroUnit, Dim(7, One), [Dim(1, One) EXCEPT ![7] = IntNum(-2)]}

TupleArgs ==
    {TupleValue(<<>>), TupleValue(<<One, Zero, Zero>>), TupleValue(<<Zero, Zero>>),
     TupleValue(Dim(1, IntNum(2)))}

PoolValues ==
    {Number(IntNum(2)), Instance(One, Dim(1, One)), Instance(IntNum(3), Dim(7, One))}

PowArgs == {-1, 0, 2}

RootArgs == {0, 2}

\* nothing has touched the registry: the module is imported, Units() not yet called
UIdle ==
    /\ heap = EmptyDict
    /\ nobjs = 0
    /\ _Instance = 0
    /\ _Prefixable = {}
    /\ uref = 0
    /\ uop = [op |-> "import"]
    /\ ures = Return(NoneValue)

Threads == {"t1", "t2"}

\* no thread is in a call of add
TIdle ==
    /\ pc = [t \in Threads |-> "idle"]
    /\ frame = [t \in Threads |-> NoneValue]

QStep(op, lhs, rhs, kw, arg, r) ==
    /\ UNCHANGED <<uvars, tvars>>
    /\ nops < MaxOps
    /\ IF r.err = "none" THEN InBounds(r.out) ELSE TRUE
    /\ nops' = nops + 1
    /\ qop' = op
    /\ qlhs' = lhs
    /\ qrhs' = rhs
    /\ qkw' = kw
    /\ qarg' = arg
    /\ qres' = r
    /\ acc' = IF r.err = "none" /\ r.out.type \notin {"bool", "math"} THEN r.out ELSE acc

\* the two operand orders of a binary operation between acc and another value
Operands == {<<acc, x>> : x \in PoolValues \cup {acc}} \cup {<<x, acc>> : x \in PoolValues}

QInit ==
    /\ acc = Number(One)
    /\ qop = "init"
    /\ qlhs = NoneValue
    /\ qrhs = NoneValue
    /\ qkw = <<>>
    /\ qarg = 0
    /\ qres = Return(Number(One))
    /\ nops = 0

Construct ==
    \E value \in Magnitudes :
        \/ \E kw \in KwVecs :
               QStep("Quantity", Number(value), NoneValue, kw, 0, Quantity(value, NoneValue, kw))
        \/ \E unit \in TupleArgs \cup {acc} :
               QStep("Quantity", Number(value), unit, ZeroUnit, 0, Quantity(value, unit, ZeroUnit))

Neg == QStep("neg", acc, NoneValue, <<>>, 0, negate(acc))

AbsValue == QStep("abs", acc, NoneValue, <<>>, 0, absolute(acc))

Add == \E o \in Operands : QStep("add", o[1], o[2], <<>>, 0, plus(o[1], o[2]))

Sub == \E o \in Operands : QStep("sub", o[1], o[2], <<>>, 0, minus(o[1], o[2]))

Mul == \E o \in Operands : QStep("mul", o[1], o[2], <<>>, 0, times(o[1], o[2]))

TrueDiv == \E o \in Operands : QStep("truediv", o[1], o[2], <<>>, 0, over(o[1], o[2]))

FloorDiv == \E o \in Operands : QStep("floordiv", o[1], o[2], <<>>, 0, floor_over(o[1], o[2]))

Invert ==
    QStep("invert", acc, NoneValue, <<>>, 0,
          IF acc.type = "Quantity" THEN invert(acc) ELSE Raise("AttributeError"))

Pow == \E n \in PowArgs : QStep("pow", acc, NoneValue, <<>>, n, power(acc, n))

Root ==
    \E n \in RootArgs :
        /\ IF acc.type = "Quantity" /\ n > 0 THEN HasRoot(acc.value, n) ELSE TRUE
        /\ QStep("root", acc, NoneValue, <<>>, n,
                 IF acc.type = "Quantity" THEN root(acc, n) ELSE Raise("AttributeError"))

Sqrt ==
    /\ IF acc.type = "Quantity" THEN HasRoot(acc.value, 2) ELSE TRUE
    /\ QStep("sqrt", acc, NoneValue, <<>>, 2,
             IF acc.type = "Quantity" THEN sqrt(acc) ELSE Raise("AttributeError"))

Eq == \E o \in Operands : QStep("eq", o[1], o[2], <<>>, 0, eq(o[1], o[2]))

Ne == \E o \in Operands : QStep("ne", o[1], o[2], <<>>, 0, ne(o[1], o[2]))

Lt == \E o \in Operands : QStep("lt", o[1], o[2], <<>>, 0, lt(o[1], o[2]))

Le == \E o \in Operands : QStep("le", o[1], o[2], <<>>, 0, le(o[1], o[2]))

Gt == \E o \in Operands : QStep("gt", o[1], o[2], <<>>, 0, gt(o[1], o[2]))

Ge == \E o \in Operands : QStep("ge", o[1], o[2], <<>>, 0, ge(o[1], o[2]))

\* float(acc), acc.sin(), acc.cos(), acc.tan() on a Quantity
Float == acc.type = "Quantity" /\ QStep("float", acc, NoneValue, <<>>, 0, __float__(acc))

Sin == acc.type = "Quantity" /\ QStep("sin", acc, NoneValue, <<>>, 0, sin(acc))

Cos == acc.type = "Quantity" /\ QStep("cos", acc, NoneValue, <<>>, 0, cos(acc))

Tan == acc.type = "Quantity" /\ QStep("tan", acc, NoneValue, <<>>, 0, tan(acc))

QNext ==
    \/ Float
    \/ Sin
    \/ Cos
    \/ Tan
    \/ Construct
    \/ Neg
    \/ AbsValue
    \/ Add
    \/ Sub
    \/ Mul
    \/ TrueDiv
    \/ FloorDiv
    \/ Invert
    \/ Pow
    \/ Root
    \/ Sqrt
    \/ Eq
    \/ Ne
    \/ Lt
    \/ Le
    \/ Gt
    \/ Ge

\* the client of the arithmetic engine starts; the registry is not touched
InitQ == QInit /\ UIdle /\ TIdle

SpecQ == InitQ /\ [][QNext]_vars

(***************************************************************************)
(* Properties of the arithmetic engine (specification SpecQ).  The         *)
(* relations between numbers are stated on plain fractions, by cross       *)
(* multiplication, not with the operators the model computes with.         *)
(***************************************************************************)
\* the signed numerator of x over PlainDen(x)
SNum(x) == IF x.n < 0 THEN -PlainNum(x) ELSE PlainNum(x)

\* z = x + y
IsSum(z, x, y) ==
    SNum(z) * PlainDen(x) * PlainDen(y)
        = (SNum(x) * PlainDen(y) + SNum(y) * PlainDen(x)) * PlainDen(z)

\* z = x * y
IsProduct(z, x, y) == SNum(z) * PlainDen(x) * PlainDen(y) = SNum(x) * SNum(y) * PlainDen(z)

\* x = y
IsSame(x, y) == SNum(x) * PlainDen(y) = SNum(y) * PlainDen(x)

\* x < y
IsLess(x, y) == SNum(x) * PlainDen(y) < SNum(y) * PlainDen(x)

\* z is the integer with z <= x / y < z + 1, for y # 0
IsFloorOfQuotient(z, x, y) ==
    LET s == IF SNum(y) < 0 THEN -1 ELSE 1
        n == s * SNum(x) * PlainDen(y)
        d == s * PlainDen(x) * SNum(y)
    IN  /\ PlainDen(z) = 1
        /\ SNum(z) * d <= n
        /\ n < (SNum(z) + 1) * d

\* the exponent vector of a value: the zero vector for a bare number
UnitOf(v) == IF v.type = "Quantity" THEN v.unit ELSE ZeroUnit

NonZeroUnit(u) == \E i \in 1..Len(u) : ~IsZero(u[i])

CompatOps == {"add", "sub", "eq", "ne", "lt", "le", "gt", "ge"}

\* what a comparison of the magnitudes x and y gives
Compared(op, x, y) ==
    CASE op = "eq" -> IsSame(x, y)
      [] op = "ne" -> ~IsSame(x, y)
      [] op = "lt" -> IsLess(x, y)
      [] op = "le" -> ~IsLess(y, x)
      [] op = "gt" -> IsLess(y, x)
      [] op = "ge" -> ~IsLess(x, y)

\* C1: add, subtract and the six comparisons, in both operand orders, between
\* a Quantity and another operand raise IncompatibleUnits and return nothing
\* when the other operand is a bare number or a Quantity with another exponent
\* vector; with equal exponent vectors add and subtract return a Quantity with
\* that vector and the sum or difference of the magnitudes, and a comparison
\* returns the comparison of the magnitudes.
C1_CompatibilityEnforced ==
    (qop \in CompatOps /\ (qlhs.type = "Quantity" \/ qrhs.type = "Quantity")) =>
        IF qlhs.type = "Quantity" /\ qrhs.type = "Quantity" /\ qlhs.unit = qrhs.unit
        THEN /\ qres.err = "none"
             /\ IF qop = "add"
                THEN /\ qres.out.type = "Quantity"
                     /\ qres.out.unit = qlhs.unit
                     /\ IsSum(qres.out.value, qlhs.value, qrhs.value)
                ELSE IF qop = "sub"
                THEN /\ qres.out.type = "Quantity"
                     /\ qres.out.unit = qlhs.unit
                     /\ IsSum(qlhs.value, qres.out.value, qrhs.value)
                ELSE qres.out = Bool(Compared(qop, qlhs.value, qrhs.value))
        ELSE qres.err = "IncompatibleUnits" /\ qres.out = NoneValue

\* a bare number minus a Quantity has raised IncompatibleUnits
C1_Witness ==
    /\ qop = "sub"
    /\ qlhs.type = "number"
    /\ qrhs.type = "Quantity"
    /\ qres.err = "IncompatibleUnits"

\* the exponent vector the last operation is to produce
ExpectedUnit ==
    CASE qop = "Quantity" ->
             IF qrhs.type = "None" THEN qkw
             ELSE IF qrhs.type = "Quantity" THEN qrhs.unit
             ELSE qrhs.value
      [] qop \in {"neg", "abs"} -> UnitOf(qlhs)
      [] qop \in {"add", "sub"} -> IF qlhs.type = "Quantity" THEN qlhs.unit ELSE UnitOf(qrhs)
      [] qop = "mul" -> VecAdd(UnitOf(qlhs), UnitOf(qrhs))
      [] qop \in {"truediv", "floordiv"} -> VecSub(UnitOf(qlhs), UnitOf(qrhs))
      [] qop = "invert" -> VecNeg(UnitOf(qlhs))
      [] qop = "pow" -> VecScale(qarg, UnitOf(qlhs))
      [] qop \in {"root", "sqrt"} -> VecDiv(UnitOf(qlhs), qarg)
      [] OTHER -> ZeroUnit

\* C2: the result of a construction or of an arithmetic operation is a bare
\* number when its exponent vector is all zero and a Quantity when some
\* exponent is not zero; no Quantity with an all-zero exponent vector is ever
\* held or returned.
C2_DegeneracyCollapse ==
    /\ acc.type = "Quantity" => NonZeroUnit(acc.unit)
    /\ qres.out.type = "Quantity" => NonZeroUnit(qres.out.unit)
    /\ (qres.err = "none" /\ qres.out.type \in {"number", "Quantity"} /\ qop # "init") =>
           /\ qres.out.type = "number" <=> ~NonZeroUnit(ExpectedUnit)
           /\ qres.out.type = "Quantity" => qres.out.unit = ExpectedUnit

\* q / q has given a bare number
C2_Witness ==
    /\ qop = "truediv"
    /\ qlhs.type = "Quantity"
    /\ qrhs = qlhs
    /\ qres.err = "none"
    /\ qres.out.type = "number"

\* C3: multiply gives the component-wise sum of the operands' exponent vectors
\* and the product of the magnitudes; true-divide and floor-divide give the
\* difference (left minus right) and the quotient of the magnitudes, floored
\* for floor-divide; a bare number on either side counts as the zero vector.
\* (Dividing by a zero magnitude raises the host's ZeroDivisionError.)
C3_MulDivUnitAlgebra ==
    (qop \in {"mul", "truediv", "floordiv"} /\ (qlhs.type = "Quantity" \/ qrhs.type = "Quantity")) =>
        IF qop # "mul" /\ IsZero(qrhs.value)
        THEN qres.err = "ZeroDivisionError"
        ELSE /\ qres.err = "none"
             /\ qres.out.type \in {"number", "Quantity"}
             /\ \A i \in 1..NDims :
                    IF qop = "mul"
                    THEN IsSum(UnitOf(qres.out)[i], UnitOf(qlhs)[i], UnitOf(qrhs)[i])
                    ELSE IsSum(UnitOf(qlhs)[i], UnitOf(qres.out)[i], UnitOf(qrhs)[i])
             /\ CASE qop = "mul" -> IsProduct(qres.out.value, qlhs.value, qrhs.value)
                  [] qop = "truediv" -> IsProduct(qlhs.value, qres.out.value, qrhs.value)
                  [] qop = "floordiv" -> IsFloorOfQuotient(qres.out.value, qlhs.value, qrhs.value)

\* a bare number floor-divided by a Quantity has given a Quantity
C3_Witness ==
    /\ qop = "floordiv"
    /\ qlhs.type = "number"
    /\ qrhs.type = "Quantity"
    /\ qres.err = "none"
    /\ qres.out.type = "Quantity"

(***************************************************************************)
(* The registry as a state machine: a client acquires the registry with    *)
(* Units() and keeps the reference in uref, registers units with add,      *)
(* looks names up as attributes and tries to assign to them.  An object    *)
(* that neither uref nor Units._Instance refers to is collected.           *)
(***************************************************************************)
junk == <<"j", "u", "n", "k">>

reset == <<"r", "e", "s", "e", "t">>

UserNames == {junk, <<"m">>}

\* length=1, angle=-2; 2, length=1, angle=-2; length=1; 0.01; 2, 3
UserDefs ==
    {[args |-> <<>>, kwargs |-> [Dim(1, One) EXCEPT ![7] = IntNum(-2)]],
     [args |-> <<Number(IntNum(2))>>, kwargs |-> [Dim(1, One) EXCEPT ![7] = IntNum(-2)]],
     [args |-> <<>>, kwargs |-> Dim(1, One)],
     [args |-> <<Number(Num(1, 100, 0, 0))>>, kwargs |-> ZeroUnit],
     [args |-> <<Number(IntNum(2)), Number(IntNum(3))>>, kwargs |-> ZeroUnit]}

\* what the client adds: each name with each definition, and km as the quantity the
\* lookup of km synthesizes, Quantity(1000, length=1)
UserAdds ==
    {<<name, def>> : name \in UserNames, def \in UserDefs}
        \cup {<<<<"k", "m">>, [args |-> <<Instance(IntNum(1000), Dim(1, One))>>,
                               kwargs |-> ZeroUnit]>>}

LookupNames ==
    {junk, <<"k">> \o junk, <<"m">> \o junk, <<"k", "k">> \o junk, <<"k", "m">>,
     <<"c", "m">>, <<"k", "m", "i", "l", "e">>, <<"k", "z", "z">>, <<"x">>, reset}

Call(op, name, args, kwargs, can_prefix) ==
    [op |-> op, name |-> name, args |-> args, kwargs |-> kwargs, can_prefix |-> can_prefix]

\* the object h as the methods see it
Self(h) == [dict |-> heap[h].dict, pref |-> _Prefixable]

\* what is left of the heap hp when only refs are referred to
Live(hp, refs) == [h \in (DOMAIN hp) \cap refs |-> hp[h]]

\* a call on the client's registry with the result r = [dict, pref, out, err]
UStep(call, result) ==
    /\ uref # 0
    /\ \E r \in {result} :
           /\ heap' = [heap EXCEPT ![uref].dict = r.dict]
           /\ _Prefixable' = r.pref
           /\ uop' = call
           /\ ures' = [out |-> r.out, err |-> r.err]
    /\ UNCHANGED <<nobjs, _Instance, uref, qvars, tvars>>

Init == QInit /\ UIdle /\ TIdle

\* uref = Units(): __new__, then __init__ on the object it returned
UnitsCall ==
    LET made  == _Instance = 0
        h     == IF made THEN nobjs + 1 ELSE _Instance
        inits == IF made THEN 0 ELSE heap[h].inits
    IN  /\ IF made THEN nobjs < MaxObjects ELSE inits < MaxAcquire
        /\ \E r \in {__init__(IF made THEN [dict |-> EmptyDict, pref |-> _Prefixable]
                               ELSE Self(h))} :
               LET ref == IF r.err = "none" THEN h ELSE uref
               IN  /\ uref' = ref
                   /\ _Prefixable' = r.pref
                   /\ heap' = Live([x \in DOMAIN heap \cup {h} |->
                                        IF x = h THEN [dict |-> r.dict, inits |-> inits + 1]
                                        ELSE heap[x]],
                                   {h, ref})
                   /\ ures' = IF r.err = "none" THEN Return([type |-> "Units", value |-> h])
                              ELSE [out |-> r.out, err |-> r.err]
        /\ nobjs' = IF made THEN h ELSE nobjs
        /\ _Instance' = h
        /\ uop' = Call("Units", <<>>, <<>>, <<>>, FALSE)
        /\ UNCHANGED <<qvars, tvars>>

\* uref.add(name, *args, can_prefix=can_prefix, **kwargs)
AddUnit ==
    \E a \in UserAdds, can_prefix \in BOOLEAN :
        UStep(Call("add", a[1], a[2].args, a[2].kwargs, can_prefix),
              add(Self(uref), a[1], a[2].args, can_prefix, a[2].kwargs))

\* uref.<name>
GetAttr ==
    \E name \in LookupNames :
        UStep(Call("getattr", name, <<>>, <<>>, FALSE), getattr(Self(uref), name))

\* uref.<name> = 1
SetAttr ==
    \E name \in UserNames :
        UStep(Call("setattr", name, <<Number(One)>>, <<>>, FALSE),
              __setattr__(Self(uref), name, Number(One)))

\* the names a length is converted to: compatible, synthesized, incompatible, unknown
ConvertNames == {<<"m">>, <<"k", "m">>, <<"k", "g">>, <<"k", "z", "z">>}

\* Quantity(3, length=1).<name>
Convert ==
    \E name \in ConvertNames :
        UStep(Call("convert", name, <<Instance(IntNum(3), Dim(1, One))>>, <<>>, FALSE),
              Quantity__getattr__(Instance(IntNum(3), Dim(1, One)), Self(uref), name))

Next ==
    \/ UnitsCall
    \/ AddUnit
    \/ GetAttr
    \/ SetAttr
    \/ Convert

Spec == Init /\ [][Next]_vars

\* what the test harness does between tests, the class having no reset
setUp ==
    /\ _Prefixable' = {}
    /\ _Instance' = 0
    /\ heap' = Live(heap, {uref})
    /\ uop' = Call("setUp", <<>>, <<>>, <<>>, FALSE)
    /\ ures' = Return(NoneValue)
    /\ UNCHANGED <<nobjs, uref, qvars, tvars>>

NextR ==
    \/ UnitsCall
    \/ AddUnit
    \/ GetAttr
    \/ SetAttr
    \/ Convert
    \/ setUp

SpecR == Init /\ [][NextR]_vars

(***************************************************************************)
(* Two threads in add on the one registry, each at a line of its own call. *)
(* add takes no lock: a thread is scheduled between any two of its         *)
(* statements.  The registry is bootstrapped before the threads start.     *)
(***************************************************************************)
\* the definitions a thread registers: those of UserDefs a quantity can be made of
ThreadDefs == {def \in UserDefs : Len(def.args) < 2}

Bootstrapped == __init__([dict |-> EmptyDict, pref |-> {}])

InitThreads ==
    /\ QInit
    /\ TIdle
    /\ heap = (1 :> [dict |-> Bootstrapped.dict, inits |-> 1])
    /\ nobjs = 1
    /\ _Instance = 1
    /\ _Prefixable = Bootstrapped.pref
    /\ uref = 1
    /\ uop = Call("Units", <<>>, <<>>, <<>>, FALSE)
    /\ ures = Return([type |-> "Units", value |-> 1])

Returned(f, out, err) == [f EXCEPT !.out = out, !.err = err]

\* lines 76-87: the call and the quantity of its arguments
T_Call(t) ==
    /\ pc[t] = "idle"
    /\ \E def \in ThreadDefs, can_prefix \in BOOLEAN :
           \E unit \in {NewUnit(def.args, def.kwargs)} :
               /\ frame' = [frame EXCEPT ![t] = [name |-> junk, can_prefix |-> can_prefix,
                                                 unit |-> unit.out, out |-> NoneValue,
                                                 err |-> unit.err]]
               /\ pc' = [pc EXCEPT ![t] = IF unit.err = "none" THEN "check" ELSE "done"]
    /\ UNCHANGED <<qvars, uvars>>

\* lines 88-96: the registered name is compared and the call returns or raises
T_Check(t) ==
    /\ pc[t] = "check"
    /\ LET f    == frame[t]
           self == Self(uref)
       IN  IF f.name \in DOMAIN self.dict
           THEN \E same \in {eq(f.unit, self.dict[f.name])} :
                    /\ frame' = [frame EXCEPT ![t] =
                                     IF /\ f.can_prefix = (f.name \in self.pref)
                                        /\ same.err = "none"
                                        /\ same.out.value
                                     THEN Returned(f, self.dict[f.name], "none")
                                     ELSE Returned(f, NoneValue, "InconsistentUnitDefinition")]
                    /\ pc' = [pc EXCEPT ![t] = "done"]
           ELSE /\ pc' = [pc EXCEPT ![t] = "insert"]
                /\ UNCHANGED frame
    /\ UNCHANGED <<qvars, uvars>>

\* line 98
T_Insert(t) ==
    /\ pc[t] = "insert"
    /\ heap' = [heap EXCEPT ![uref].dict = DictPut(@, frame[t].name, frame[t].unit)]
    /\ pc' = [pc EXCEPT ![t] = IF frame[t].can_prefix THEN "prefix" ELSE "done"]
    /\ frame' = [frame EXCEPT ![t] =
                     IF frame[t].can_prefix THEN @ ELSE Returned(@, @.unit, "none")]
    /\ UNCHANGED <<qvars, nobjs, _Instance, _Prefixable, uref, uop, ures>>

\* lines 100-103
T_Prefix(t) ==
    /\ pc[t] = "prefix"
    /\ _Prefixable' = _Prefixable \cup {frame[t].name}
    /\ pc' = [pc EXCEPT ![t] = "done"]
    /\ frame' = [frame EXCEPT ![t] = Returned(@, @.unit, "none")]
    /\ UNCHANGED <<qvars, heap, nobjs, _Instance, uref, uop, ures>>

NextThreads ==
    \/ \E t \in Threads : T_Call(t)
    \/ \E t \in Threads : T_Check(t)
    \/ \E t \in Threads : T_Insert(t)
    \/ \E t \in Threads : T_Prefix(t)

SpecThreads == InitThreads /\ [][NextThreads]_vars

(***************************************************************************)
(* Properties of the registry (specifications Spec, SpecR, SpecThreads).   *)
(* Magnitudes are kept in lowest terms, so two quantities are equal        *)
(* exactly when their magnitudes and exponent vectors are the same.        *)
(***************************************************************************)
\* a and b are equal definitions: the same exponent vector and the same magnitude
SameDefinition(a, b) == UnitOf(a) = UnitOf(b) /\ a.value = b.value

\* z = f * x for a power of ten f and x # 0
IsTimesPowerOfTen(z, x, f) ==
    z.n = x.n /\ z.d = x.d /\ z.p2 = x.p2 + f.p2 /\ z.p5 = x.p5 + f.p5

\* the entries of the client's registry before and after a step
Entries == heap[uref].dict

EntriesAfter == heap'[uref].dict

RegistryUnchanged == EntriesAfter = Entries /\ _Prefixable' = _Prefixable

\* the step is the call op of the client on its registry
Called(op) == uref # 0 /\ uop'.op = op

\* C4: once a name is registered with a quantity and a prefixable flag, it stays
\* registered with an equal quantity and the same flag in every later state, whatever
\* add calls, lookups, assignments and acquisitions follow: entries are only added.
C4_AppendOnly ==
    [][\A h \in DOMAIN heap :
           /\ h \in DOMAIN heap'
           /\ \A n \in DOMAIN heap[h].dict :
                  /\ n \in DOMAIN heap'[h].dict
                  /\ SameDefinition(heap'[h].dict[n], heap[h].dict[n])
                  /\ (n \in _Prefixable') = (n \in _Prefixable)]_vars

\* an add of a conflicting definition has failed on a registry that was acquired twice
\* and holds a user-added and a prefix-synthesized name
C4_Witness ==
    /\ uref # 0
    /\ heap[uref].inits = 2
    /\ {junk, <<"k">> \o junk} \subseteq DOMAIN heap[uref].dict
    /\ uop.op = "add"
    /\ uop.name = junk
    /\ ures.err = "InconsistentUnitDefinition"

\* the quantity the arguments of the last add declare: its magnitude and exponents
DeclaredValue == IF uop'.args = <<>> THEN One ELSE uop'.args[1].value

DeclaredUnit ==
    IF uop'.args # <<>> /\ uop'.args[1].type = "Quantity" THEN uop'.args[1].unit
    ELSE uop'.kwargs

DeclaredMatches(cur) == cur.value = DeclaredValue /\ UnitOf(cur) = DeclaredUnit

\* C5: add on a registered name, with arguments a quantity can be made of, returns the
\* stored quantity if and only if the new quantity equals the stored one and can_prefix
\* equals the stored flag; otherwise it fails with InconsistentUnitDefinition; in both
\* cases the entries and the prefixable set are unchanged.
C5_ReAddChecked ==
    [][(Called("add") /\ Len(uop'.args) < 2 /\ uop'.name \in DOMAIN Entries)
           => /\ IF /\ DeclaredMatches(Entries[uop'.name])
                    /\ uop'.can_prefix = (uop'.name \in _Prefixable)
                 THEN ures' = Return(Entries[uop'.name])
                 ELSE ures'.err = "InconsistentUnitDefinition"
              /\ RegistryUnchanged]_vars

\* m was added again as what it is, length=1, but not prefixable, and the add failed
C5_Witness ==
    /\ uref # 0
    /\ uop.op = "add"
    /\ uop.name = <<"m">>
    /\ uop.args = <<>>
    /\ uop.kwargs = Dim(1, One)
    /\ ~uop.can_prefix
    /\ <<"m">> \in _Prefixable
    /\ ures.err = "InconsistentUnitDefinition"

\* C6: for a prefix p and a registered prefixable name b, whatever b is defined as, the
\* lookup of the unregistered name p+b returns factor(p) * registry[b] and leaves p+b
\* registered with it; the lookup of a registered name returns its entry and changes
\* nothing.
C6_PrefixSynthesis ==
    [][Called("getattr")
           => LET name == uop'.name
              IN  IF name \in DOMAIN Entries
                  THEN ures' = Return(Entries[name]) /\ RegistryUnchanged
                  ELSE (/\ Len(name) > 1
                        /\ Head(name) \in DOMAIN _Prefixes
                        /\ Tail(name) \in DOMAIN Entries
                        /\ Tail(name) \in _Prefixable)
                           => /\ ures'.err = "none"
                              /\ UnitOf(ures'.out) = UnitOf(Entries[Tail(name)])
                              /\ IsTimesPowerOfTen(ures'.out.value, Entries[Tail(name)].value,
                                                   _Prefixes[Head(name)])
                              /\ name \in DOMAIN EntriesAfter
                              /\ EntriesAfter[name] = ures'.out]_vars

\* C7: the lookup of an unregistered name fails with UndefinedUnit and registers nothing
\* when the name has fewer than 2 characters, or its first is no prefix, or the rest of
\* it is not registered, or is registered but not prefixable.
C7_UndefinedUnit ==
    [][(/\ Called("getattr")
        /\ uop'.name \notin DOMAIN Entries
        /\ \/ Len(uop'.name) < 2
           \/ Head(uop'.name) \notin DOMAIN _Prefixes
           \/ Tail(uop'.name) \notin DOMAIN Entries
           \/ Tail(uop'.name) \notin _Prefixable)
           => ures'.err = "UndefinedUnit" /\ RegistryUnchanged]_vars

\* kmile was looked up: mile is registered, not prefixable, and kmile is still undefined
C7_Witness ==
    /\ uref # 0
    /\ uop.op = "getattr"
    /\ uop.name = <<"k", "m", "i", "l", "e">>
    /\ <<"m", "i", "l", "e">> \in DOMAIN heap[uref].dict
    /\ <<"m", "i", "l", "e">> \notin _Prefixable
    /\ uop.name \notin DOMAIN heap[uref].dict
    /\ ures.err = "UndefinedUnit"

\* C8: when two threads have called add for the same unregistered name with unequal
\* definitions or flags, exactly one call has registered its definition, which is the
\* one the registry holds, and the other has failed with InconsistentUnitDefinition.
C8_AtomicRegistration ==
    \A s \in Threads : \A t \in Threads \ {s} :
        (/\ pc[s] = "done"
         /\ pc[t] = "done"
         /\ frame[s].name = frame[t].name
         /\ \/ ~SameDefinition(frame[s].unit, frame[t].unit)
            \/ frame[s].can_prefix # frame[t].can_prefix)
            => /\ (frame[s].err = "none") # (frame[t].err = "none")
               /\ frame[s].err = "none"
                      => /\ frame[t].err = "InconsistentUnitDefinition"
                         /\ SameDefinition(heap[uref].dict[frame[s].name], frame[s].unit)
                         /\ (frame[s].name \in _Prefixable) = frame[s].can_prefix

\* C9: every acquisition returns the same instance; the bootstrap runs on the first
\* acquisition only: a later one does not run it and leaves the entries and the
\* prefixable set as they were.
C9_InitializedOnce ==
    [][(uop'.op = "Units" /\ _Instance # 0)
           => /\ ures' = Return([type |-> "Units", value |-> _Instance])
              /\ heap'[_Instance].dict = heap[_Instance].dict
              /\ _Prefixable' = _Prefixable
              /\ heap'[_Instance].inits = heap[_Instance].inits]_vars

\* C10: a reset, be it a call of reset on the registry or what the test harness does,
\* succeeds and leaves no name registered and no name flagged prefixable.
C10_ResetClears ==
    [][(uref # 0 /\ (uop'.op = "setUp" \/ (uop'.op = "getattr" /\ uop'.name = reset)))
           => /\ ures'.err = "none"
              /\ DOMAIN EntriesAfter = {}
              /\ _Prefixable' = {}]_vars

(***************************************************************************)
(* Properties of the constructor's unit argument (specification SpecQ).    *)
(***************************************************************************)
\* C11: a construction whose unit argument is a sequence of a length other than 7,
\* the empty one and those of zeros included, fails and returns no value.
C11_InvalidUnitRejected ==
    (qop = "Quantity" /\ qrhs.type = "tuple" /\ Len(qrhs.value) # NDims)
        => qres.err # "none"

(***************************************************************************)
(* Properties of the conversions of a Quantity (specifications Spec, SpecQ).*)
(***************************************************************************)
\* C12: q.<name> is q divided by the registry's quantity for <name> when that has q's
\* exponent vector, fails with IncompatibleUnits when <name> stands for another
\* exponent vector, and with UndefinedUnit when the registry cannot resolve <name>.
C12_ConversionErrors ==
    [][Called("convert")
           => LET q    == uop'.args[1]
                  name == uop'.name
              IN  IF name \notin DOMAIN EntriesAfter THEN ures'.err = "UndefinedUnit"
                  ELSE IF UnitOf(EntriesAfter[name]) # q.unit
                       THEN ures'.err = "IncompatibleUnits"
                  ELSE /\ ures'.err = "none"
                       /\ ures'.out.type = "number"
                       /\ IsProduct(q.value, ures'.out.value, EntriesAfter[name].value)]_vars

\* C13: float, sin, cos and tan of a Quantity succeed exactly when its exponent vector
\* is angle=1 and nothing else, and otherwise fail with a NotAnAngle that names the
\* operation attempted.
C13_AngleOnly ==
    (qop \in {"float", "sin", "cos", "tan"})
        => IF qlhs.unit = <<Zero, Zero, Zero, Zero, Zero, Zero, One>>
           THEN qres.err = "none"
           ELSE qres.err = "NotAnAngle" /\ qres.out.value = <<qop>>

(***************************************************************************)
(* Further properties of the registry (specification Spec).                *)
(***************************************************************************)
\* C14: an assignment to an attribute of the registry, registered name or not, fails
\* with AttemptToAssignToUnit and changes nothing; the entries and the prefixable set of
\* an acquired registry change only in an add or in a lookup that synthesizes a
\* prefixed name.
C14_AssignmentLocked ==
    [][/\ Called("setattr") => ures'.err = "AttemptToAssignToUnit" /\ RegistryUnchanged
       /\ (uref # 0 /\ ~RegistryUnchanged)
              => \/ uop'.op = "add"
                 \/ /\ uop'.op \in {"getattr", "convert"}
                    /\ Head(uop'.name) \in DOMAIN _Prefixes
                    /\ Tail(uop'.name) \in _Prefixable
                    /\ DOMAIN EntriesAfter = DOMAIN Entries \cup {uop'.name}]_vars

\* junk, not registered, was assigned to and is still not registered
C14_Witness ==
    /\ uref # 0
    /\ uop.op = "setattr"
    /\ uop.name = junk
    /\ junk \notin DOMAIN heap[uref].dict
    /\ <<"m">> \in DOMAIN heap[uref].dict
    /\ ures.err = "AttemptToAssignToUnit"

\* the names an argument expression of a bootstrap step refers to
RECURSIVE Refs(_)
Refs(e) ==
    CASE e[1] = "u" -> {e[2]}
      [] e[1] = "n" -> {}
      [] e[1] = "pow" -> Refs(e[2])
      [] OTHER -> Refs(e[2]) \cup Refs(e[3])

StepRefs(i) == UNION {Refs(Bootstrap[i].args[k]) : k \in 1..Len(Bootstrap[i].args)}

\* every name step i refers to is added by an earlier step, or is a prefix before a
\* name an earlier step added as prefixable
RefersBack(i) ==
    \A n \in StepRefs(i) :
        \E k \in 1..(i - 1) :
            \/ Bootstrap[k].name = n
            \/ /\ Len(n) > 1
               /\ Head(n) \in DOMAIN _Prefixes
               /\ Bootstrap[k].name = Tail(n)
               /\ Bootstrap[k].can_prefix

\* the steps that add a name for a unit as it is: self.add(name, self.<unit>)
Aliases ==
    {i \in 1..Len(Bootstrap) :
         /\ Len(Bootstrap[i].args) = 1
         /\ Bootstrap[i].args[1][1] = "u"
         /\ Bootstrap[i].kwargs = ZeroUnit}

\* a == b is True
Equal(a, b) == eq(a, b) = Return(Bool(TRUE))

\* C15: every bootstrap step refers only to units added or synthesizable before it and
\* no step conflicts with an earlier one, so Units() completes without an error;
\* afterwards N == m*kg/sec**2, 5*N == 5*m*kg/sec**2, and every alias equals its unit.
C15_BootstrapCompletes ==
    [][uop'.op = "Units"
           => /\ \A i \in 1..Len(Bootstrap) : RefersBack(i)
              /\ ures'.err = "none"
              /\ LET d    == heap'[uref'].dict
                     five == Number(IntNum(5))
                 IN  /\ \A i \in 1..Len(Bootstrap) : Bootstrap[i].name \in DOMAIN d
                     /\ Equal(d[<<"N">>],
                              over(times(d[<<"m">>], d[<<"k", "g">>]).out,
                                   power(d[<<"s", "e", "c">>], 2).out).out)
                     /\ Equal(times(five, d[<<"N">>]).out,
                              over(times(times(five, d[<<"m">>]).out, d[<<"k", "g">>]).out,
                                   power(d[<<"s", "e", "c">>], 2).out).out)
                     /\ \A i \in Aliases :
                            Equal(d[Bootstrap[i].name], d[Bootstrap[i].args[1][2]])]_vars

\* the registry was acquired for the first time: newton, an alias, and cm, synthesized
\* by a bootstrap step, are registered
C15_Witness ==
    /\ uref # 0
    /\ uop.op = "Units"
    /\ heap[uref].inits = 1
    /\ ures.err = "none"
    /\ {<<"n", "e", "w", "t", "o", "n">>, <<"c", "m">>} \subseteq DOMAIN heap[uref].dict

\* the names the step has registered
Registered == IF uref = 0 THEN DOMAIN heap'[uref'].dict ELSE DOMAIN EntriesAfter \ DOMAIN Entries

\* C16: the prefixable set holds exactly the names registered by an add with
\* can_prefix=True, the bootstrap's included: it is a subset of the registered names and
\* a name registered by prefix synthesis is not in it; the lookup of a prefix before a
\* registered name that is not prefixable fails with UndefinedUnit, and an add of it with
\* can_prefix=True, and arguments a quantity can be made of, fails with
\* InconsistentUnitDefinition.
C16_PrefixableExact ==
    [][uref' # 0
           => /\ _Prefixable' \subseteq DOMAIN heap'[uref'].dict
              /\ _Prefixable' \ _Prefixable
                     = CASE uop'.op = "add" -> IF uop'.can_prefix THEN Registered ELSE {}
                         [] uop'.op = "Units" ->
                                {Bootstrap[i].name : i \in {k \in 1..Len(Bootstrap) :
                                                                Bootstrap[k].can_prefix}}
                                    \ _Prefixable
                         [] OTHER -> {}
              /\ uop'.op \in {"getattr", "convert"} => Registered \cap _Prefixable' = {}
              /\ (/\ uop'.op = "getattr"
                  /\ uop'.name \notin DOMAIN Entries
                  /\ Tail(uop'.name) \in DOMAIN Entries \ _Prefixable)
                     => ures'.err = "UndefinedUnit"
              /\ (/\ uop'.op = "add"
                  /\ Len(uop'.args) < 2
                  /\ uop'.can_prefix
                  /\ uop'.name \in DOMAIN Entries \ _Prefixable)
                     => ures'.err = "InconsistentUnitDefinition"]_vars

\* kjunk was synthesized from junk and is not prefixable: the lookup of kkjunk has failed
C16_Witness ==
    /\ uref # 0
    /\ uop.op = "getattr"
    /\ uop.name = <<"k", "k">> \o junk
    /\ <<"k">> \o junk \in DOMAIN heap[uref].dict
    /\ junk \in _Prefixable
    /\ <<"k">> \o junk \notin _Prefixable
    /\ ures.err = "UndefinedUnit"

====
